---- MODULE Spec2Model ----
(***************************************************************************)
(* State-driven routing of the deer-flow-go agent graph: the shared State, *)
(* the eight router functions, and the graph branch that dispatches on     *)
(* State.Goto.                                                             *)
(*                                                                         *)
(* A Go pointer is modelled as a sequence of length 0 (nil) or 1 (the      *)
(* pointee): State.CurrentPlan is <<>> or <<plan>>, Step.ExecutionRes is   *)
(* <<>> or <<string>>.                                                     *)
(***************************************************************************)
EXTENDS Integers, Sequences, FiniteSets, TLC

VARIABLES
    state,      \* the graph's local *model.State
    node,       \* name of the node whose pipeline ran last ("" before the first)
    input,      \* the message handed to that node's router
    outcome,    \* how that pipeline ended: none, ok, interrupt, panic, error
    mcp,        \* what the tool bridge did in the investigator's search stage
    sched,      \* what the graph engine does next: a node name, END, or a halt tag
    arrived,    \* history: <<the State the human feedback node was entered with>>
                \* while the run is held at that node, <<>> otherwise
    parsed,     \* history: how many contents the planner's router has parsed
    inputList,  \* the message list handed to the ReAct agent's MessageModifier
    maxLimit,   \* conf.GetCfg().Setting.MaxLimitToken
    sr,         \* a *schema.StreamReader: what it will deliver, how far it has
                \* been read, whether it is closed
    loop,       \* the function reading sr: which one, and what it returned
    checkpointImpl, \* repo/checkpoint: the store behind each address, its buf
    callers     \* the calls on the store: the one that returned last, the
                \* accesses in progress, and (for calls made one at a
                \* time) what was Set last per id

guardVars == <<inputList, maxLimit>>
streamVars == <<sr, loop>>
storeVars == <<checkpointImpl, callers>>
vars ==
    <<state, node, input, outcome, mcp, sched, arrived, parsed, inputList, maxLimit,
      sr, loop, checkpointImpl, callers>>

(***************************************************************************)
(* Bounds of the exploration.                                              *)
(***************************************************************************)
MaxSteps == 2
MaxToolCalls == 2
MaxConfigured == 2
MaxIterations == MaxConfigured + 1
MaxMessages == 2
MaxContent == 3
MaxLimit == 2
MaxFrames == 2
MaxHandles == 2
MaxRuns == 2

(***************************************************************************)
(* entity/consts: node names, human options; compose.END.                  *)
(***************************************************************************)
Coordinator == "coordinator"
Planner == "planner"
Reporter == "reporter"
Researcher == "researcher"
Coder == "coder"
ResearchTeam == "research_team"
BackgroundInvestigator == "background_investigator"
Human == "human_feedback"
END == "end"

EditPlan == "edit_plan"
AcceptPlan == "accepted"

GetAgentNameList ==
    {Coordinator, Planner, Reporter, Researcher, Coder, ResearchTeam,
     BackgroundInvestigator, Human}

\* keys of the branch map handed to compose.NewGraphBranch
getAgentGraphMap == GetAgentNameList \cup {END}

(***************************************************************************)
(* entity/model: Plan and Step.  StepType is a Go string type filled by    *)
(* json.Unmarshal, so a value outside the two named constants can occur.   *)
(***************************************************************************)
Research == "research"
Processing == "processing"
StepTypes == {Research, Processing, "analysis"}

Results == {"x"}
Ptr(S) == {<<>>} \cup {<<v>> : v \in S}

Step == [StepType : StepTypes, ExecutionRes : Ptr(Results)]

SeqsUpTo(S, n) == UNION {[1..k -> S] : k \in 0..n}

Plan ==
    [Title : {"t"}, Thought : {"th"}, HasEnoughContext : BOOLEAN,
     Steps : SeqsUpTo(Step, MaxSteps)]

\* &model.Plan{}
EmptyPlan == [Title |-> "", Thought |-> "", HasEnoughContext |-> FALSE, Steps |-> <<>>]

(***************************************************************************)
(* Router inputs: a *schema.Message carries tool calls and a content.      *)
(* The content is kept abstract by what its consumers do with it:          *)
(*   text     - free text (the researcher's or coder's final answer)       *)
(*   invalid  - not JSON: json.Unmarshal fails and leaves its target alone *)
(*   mismatch - JSON of a Plan whose has_enough_context is not a boolean:  *)
(*              json.Unmarshal fills the fields it can decode (plan) and   *)
(*              returns an UnmarshalTypeError                              *)
(*   plan     - JSON of a Plan                                             *)
(* Tool-call arguments likewise: "invalid", or an object whose locale is   *)
(* a string, is missing ("absent"), or is not a string ("number").         *)
(***************************************************************************)
HandToPlanner == "hand_to_planner"
ToolNames == {HandToPlanner, "web_search"}
Locales == {"zh-CN"}
Arguments ==
    [kind : {"object"}, locale : Locales \cup {"absent", "number"}]
        \cup {[kind |-> "invalid", locale |-> "absent"]}
ToolCall ==
    [Name : {HandToPlanner}, Arguments : Arguments]
        \cup [Name : ToolNames \ {HandToPlanner},
              Arguments : {[kind |-> "object", locale |-> "absent"]}]

TextContent(t) == [kind |-> "text", text |-> t, plan |-> EmptyPlan]
PlanContents ==
    [kind : {"plan"}, text : {""}, plan : Plan]
        \cup [kind : {"mismatch"}, text : {""},
              plan : {p \in Plan : ~p.HasEnoughContext}]
        \cup {[kind |-> "invalid", text |-> "", plan |-> EmptyPlan]}

Message(calls, content) == [ToolCalls |-> calls, Content |-> content]
NoInput == Message(<<>>, TextContent(""))

CoordinatorInputs ==
    {Message(c, TextContent("hi")) : c \in SeqsUpTo(ToolCall, MaxToolCalls)}
PlannerInputs == {Message(<<>>, c) : c \in PlanContents}
AgentInputs == {Message(<<>>, TextContent("out"))}

(***************************************************************************)
(* encoding/json as the routers use it.                                    *)
(***************************************************************************)
\* json.Unmarshal([]byte(Arguments), &argMap) with argMap map[string]string
UnmarshalArgs(a) ==
    [err |-> a.kind = "invalid" \/ a.locale = "number",
     locale |-> IF a.kind = "object" /\ a.locale \in Locales THEN a.locale ELSE ""]

\* json.Unmarshal([]byte(input.Content), state.CurrentPlan) on a fresh Plan
UnmarshalPlan(c) ==
    [err |-> c.kind # "plan",
     plan |-> IF c.kind \in {"plan", "mismatch"} THEN c.plan ELSE EmptyPlan]

(***************************************************************************)
(* What a router hands back: the State as its handler left it, the         *)
(* returned error ("nil", "InterruptAndRerun") or "panic" when the handler *)
(* dereferences a nil pointer and never returns.                           *)
(***************************************************************************)
Ret(s, e) == [state |-> s, err |-> e]

\* no stream is being read
NoStream == [frames |-> <<>>, end |-> "EOF", pos |-> 0, closed |-> FALSE]
NoLoop == [who |-> "none", pc |-> "idle", found |-> FALSE, err |-> "nil"]

(***************************************************************************)
(* repo/checkpoint: a map from checkpoint id to bytes (absent: <<>>),      *)
(* behind the package-level variable checkpointImpl, whose address is 0.   *)
(***************************************************************************)
Ids == {"id1", "id2"}
Bytes == {"x", "y", "z"}
Handles == 1..MaxHandles
Runs == 1..MaxRuns
Maps == [Ids -> Ptr(Bytes)]

\* make(map[string][]byte)
EmptyMap == [i \in Ids |-> <<>>]
NoStores == [a \in 0..MaxHandles |-> EmptyMap]
Idle == [op |-> "idle", id |-> "", data |-> <<>>]
NoCallers ==
    [ret |-> [op |-> "none", h |-> 0, id |-> "", data |-> <<>>, ok |-> FALSE],
     last |-> EmptyMap,
     acc |-> [r \in Runs |-> Idle],
     raced |-> FALSE]

(***************************************************************************)
(* agent/coordinator: router.  The handler's error is dropped by the       *)
(* enclosing function (return output, nil).                                *)
(***************************************************************************)
\* mutant: the handoff ignores EnableBackgroundInvestigation
coordinator_router_noInvestigation(s, in) ==
    LET s1 == [s EXCEPT !.Goto = END]
    IN  IF Len(in.ToolCalls) > 0 /\ in.ToolCalls[1].Name = HandToPlanner
        THEN LET a == UnmarshalArgs(in.ToolCalls[1].Arguments)
             IN  IF a.err
                 THEN Ret(s1, "nil")
                 ELSE Ret([s1 EXCEPT !.Locale = a.locale, !.Goto = Planner], "nil")
        ELSE Ret(s1, "nil")

\* mutant: the parse error is ignored and the locale is read from the map
\* json.Unmarshal left behind
coordinator_router_ignoresError(s, in) ==
    LET s1 == [s EXCEPT !.Goto = END]
    IN  IF Len(in.ToolCalls) > 0 /\ in.ToolCalls[1].Name = HandToPlanner
        THEN LET a == UnmarshalArgs(in.ToolCalls[1].Arguments)
             IN  Ret([s1 EXCEPT !.Locale = a.locale,
                                !.Goto = IF s.EnableBackgroundInvestigation
                                         THEN BackgroundInvestigator
                                         ELSE Planner],
                     "nil")
        ELSE Ret(s1, "nil")

\* mutant: the first hand_to_planner call is looked for among all the tool
\* calls
coordinator_router_anyPosition(s, in) ==
    LET s1 == [s EXCEPT !.Goto = END]
        at == {i \in DOMAIN in.ToolCalls : in.ToolCalls[i].Name = HandToPlanner}
    IN  IF at # {}
        THEN LET k == CHOOSE i \in at : \A j \in at : i <= j
                 a == UnmarshalArgs(in.ToolCalls[k].Arguments)
             IN  IF a.err
                 THEN Ret(s1, "nil")
                 ELSE Ret([s1 EXCEPT !.Locale = a.locale,
                                     !.Goto = IF s.EnableBackgroundInvestigation
                                              THEN BackgroundInvestigator
                                              ELSE Planner],
                          "nil")
        ELSE Ret(s1, "nil")

coordinator_router(s, in) ==
    LET s1 == [s EXCEPT !.Goto = END]
    IN  IF Len(in.ToolCalls) > 0 /\ in.ToolCalls[1].Name = HandToPlanner
        THEN LET a == UnmarshalArgs(in.ToolCalls[1].Arguments)
             IN  IF a.err
                 THEN Ret(s1, "nil")
                 ELSE Ret([s1 EXCEPT !.Locale = a.locale,
                                     !.Goto = IF s.EnableBackgroundInvestigation
                                              THEN BackgroundInvestigator
                                              ELSE Planner],
                          "nil")
        ELSE Ret(s1, "nil")

(***************************************************************************)
(* agent/investigator: router.                                             *)
(***************************************************************************)
investigator_router(s) == Ret([s EXCEPT !.Goto = Planner], "nil")

(***************************************************************************)
(* agent/planner: router.                                                  *)
(***************************************************************************)
\* mutant: a parse failure ends the run whatever PlanIterations is
planner_router_failEnds(s, in) ==
    LET u == UnmarshalPlan(in.Content)
        s1 == [s EXCEPT !.Goto = END, !.CurrentPlan = <<u.plan>>]
    IN  IF u.err
        THEN Ret(s1, "nil")
        ELSE LET s2 == [s1 EXCEPT !.PlanIterations = s.PlanIterations + 1]
             IN  IF u.plan.HasEnoughContext
                 THEN Ret([s2 EXCEPT !.Goto = Reporter], "nil")
                 ELSE Ret([s2 EXCEPT !.Goto = Human], "nil")

\* mutant: a parsed plan is not counted
planner_router_noIncrement(s, in) ==
    LET u == UnmarshalPlan(in.Content)
        s1 == [s EXCEPT !.Goto = END, !.CurrentPlan = <<u.plan>>]
    IN  IF u.err
        THEN IF s.PlanIterations > 0
             THEN Ret([s1 EXCEPT !.Goto = Reporter], "nil")
             ELSE Ret(s1, "nil")
        ELSE IF u.plan.HasEnoughContext
             THEN Ret([s1 EXCEPT !.Goto = Reporter], "nil")
             ELSE Ret([s1 EXCEPT !.Goto = Human], "nil")

\* mutant: PlanIterations is incremented before the content is parsed
planner_router_countsFailures(s, in) ==
    LET u == UnmarshalPlan(in.Content)
        s1 == [s EXCEPT !.Goto = END, !.CurrentPlan = <<u.plan>>,
                        !.PlanIterations = s.PlanIterations + 1]
    IN  IF u.err
        THEN IF s.PlanIterations > 0
             THEN Ret([s1 EXCEPT !.Goto = Reporter], "nil")
             ELSE Ret(s1, "nil")
        ELSE IF u.plan.HasEnoughContext
             THEN Ret([s1 EXCEPT !.Goto = Reporter], "nil")
             ELSE Ret([s1 EXCEPT !.Goto = Human], "nil")

\* mutant: the plan is replaced only when the content parses
planner_router_keepsOnFailure(s, in) ==
    LET u == UnmarshalPlan(in.Content)
        s1 == [s EXCEPT !.Goto = END]
    IN  IF u.err
        THEN IF s.PlanIterations > 0
             THEN Ret([s1 EXCEPT !.Goto = Reporter], "nil")
             ELSE Ret(s1, "nil")
        ELSE LET s2 == [s1 EXCEPT !.CurrentPlan = <<u.plan>>,
                                  !.PlanIterations = s.PlanIterations + 1]
             IN  IF u.plan.HasEnoughContext
                 THEN Ret([s2 EXCEPT !.Goto = Reporter], "nil")
                 ELSE Ret([s2 EXCEPT !.Goto = Human], "nil")

planner_router(s, in) ==
    LET u == UnmarshalPlan(in.Content)
        s1 == [s EXCEPT !.Goto = END, !.CurrentPlan = <<u.plan>>]
    IN  IF u.err
        THEN IF s.PlanIterations > 0
             THEN Ret([s1 EXCEPT !.Goto = Reporter], "nil")
             ELSE Ret(s1, "nil")
        ELSE LET s2 == [s1 EXCEPT !.PlanIterations = s.PlanIterations + 1]
             IN  IF u.plan.HasEnoughContext
                 THEN Ret([s2 EXCEPT !.Goto = Reporter], "nil")
                 ELSE Ret([s2 EXCEPT !.Goto = Human], "nil")

(***************************************************************************)
(* agent/human: router.  The deferred function clears InterruptFeedback on *)
(* every path, the interrupt path included.                                *)
(***************************************************************************)
\* mutant: the deferred function does not clear the feedback
human_deferred_keeps(s) == s

human_deferred(s) == [s EXCEPT !.InterruptFeedback = ""]

\* mutant: edit_plan is treated like accepted
human_router_editIgnored(s) ==
    LET s1 == [s EXCEPT !.Goto = ResearchTeam]
    IN  IF ~s.AutoAcceptedPlan
        THEN CASE s.InterruptFeedback \in {AcceptPlan, EditPlan} ->
                      Ret([s1 EXCEPT !.InterruptFeedback = ""], "nil")
               [] OTHER ->
                      Ret([s1 EXCEPT !.InterruptFeedback = ""], "InterruptAndRerun")
        ELSE Ret([s1 EXCEPT !.InterruptFeedback = ""], "nil")

\* mutant: the default Goto is written only on the paths that complete
human_router_lateDefault(s) ==
    LET s1 == [s EXCEPT !.Goto = ResearchTeam, !.InterruptFeedback = ""]
    IN  IF ~s.AutoAcceptedPlan
        THEN CASE s.InterruptFeedback = AcceptPlan -> Ret(s1, "nil")
               [] s.InterruptFeedback = EditPlan ->
                      Ret([s1 EXCEPT !.Goto = Planner], "nil")
               [] OTHER ->
                      Ret([s EXCEPT !.InterruptFeedback = ""], "InterruptAndRerun")
        ELSE Ret(s1, "nil")

\* mutant: an accepted plan switches AutoAcceptedPlan on
human_router_remembersAccept(s) ==
    LET s1 == [s EXCEPT !.Goto = ResearchTeam]
    IN  IF ~s.AutoAcceptedPlan
        THEN CASE s.InterruptFeedback = AcceptPlan ->
                      Ret(human_deferred([s1 EXCEPT !.AutoAcceptedPlan = TRUE]), "nil")
               [] s.InterruptFeedback = EditPlan ->
                      Ret(human_deferred([s1 EXCEPT !.Goto = Planner]), "nil")
               [] OTHER ->
                      Ret(human_deferred(s1), "InterruptAndRerun")
        ELSE Ret(human_deferred([s1 EXCEPT !.Goto = ResearchTeam]), "nil")

\* mutant: the feedback is consulted whether or not the plan is
\* auto-accepted
human_router_ignoresAuto(s) ==
    LET s1 == [s EXCEPT !.Goto = ResearchTeam]
    IN  CASE s.InterruptFeedback = AcceptPlan ->
                 Ret(human_deferred(s1), "nil")
          [] s.InterruptFeedback = EditPlan ->
                 Ret(human_deferred([s1 EXCEPT !.Goto = Planner]), "nil")
          [] OTHER ->
                 Ret(human_deferred(s1), "InterruptAndRerun")

human_router(s) ==
    LET s1 == [s EXCEPT !.Goto = ResearchTeam]
    IN  IF ~s.AutoAcceptedPlan
        THEN CASE s.InterruptFeedback = AcceptPlan ->
                      Ret(human_deferred(s1), "nil")
               [] s.InterruptFeedback = EditPlan ->
                      Ret(human_deferred([s1 EXCEPT !.Goto = Planner]), "nil")
               [] OTHER ->
                      Ret(human_deferred(s1), "InterruptAndRerun")
        ELSE Ret(human_deferred([s1 EXCEPT !.Goto = ResearchTeam]), "nil")

(***************************************************************************)
(* agent/researcher: teamRouter.  The loop runs over the steps in order;   *)
(* a step with a result is skipped, and so is a step whose type matches    *)
(* neither case of the switch.                                             *)
(***************************************************************************)
\* mutant: the scan does not skip the steps that have a result
RECURSIVE teamScan_noSkip(_, _)
teamScan_noSkip(steps, i) ==
    IF i > Len(steps) THEN "none"
    ELSE IF steps[i].StepType = Research THEN Researcher
    ELSE IF steps[i].StepType = Processing THEN Coder
    ELSE teamScan_noSkip(steps, i + 1)

RECURSIVE teamScan(_, _)
teamScan(steps, i) ==
    IF i > Len(steps) THEN "none"
    ELSE IF steps[i].ExecutionRes # <<>> THEN teamScan(steps, i + 1)
    ELSE IF steps[i].StepType = Research THEN Researcher
    ELSE IF steps[i].StepType = Processing THEN Coder
    ELSE teamScan(steps, i + 1)

\* mutant: the default Goto = Planner is not written
teamRouter_noDefault(s) ==
    IF s.CurrentPlan = <<>>
    THEN Ret(s, "nil")
    ELSE LET found == teamScan(s.CurrentPlan[1].Steps, 1)
         IN  IF found # "none"
             THEN Ret([s EXCEPT !.Goto = found], "nil")
             ELSE IF s.PlanIterations >= s.MaxPlanIterations
                  THEN Ret([s EXCEPT !.Goto = Reporter], "nil")
                  ELSE Ret(s, "nil")

\* mutant: the iteration budget is compared with > instead of >=
teamRouter_strict(s) ==
    LET s1 == [s EXCEPT !.Goto = Planner]
    IN  IF s.CurrentPlan = <<>>
        THEN Ret(s1, "nil")
        ELSE LET found == teamScan(s.CurrentPlan[1].Steps, 1)
             IN  IF found # "none"
                 THEN Ret([s1 EXCEPT !.Goto = found], "nil")
                 ELSE IF s.PlanIterations > s.MaxPlanIterations
                      THEN Ret([s1 EXCEPT !.Goto = Reporter], "nil")
                      ELSE Ret(s1, "nil")

teamRouter(s) ==
    LET s1 == [s EXCEPT !.Goto = Planner]
    IN  IF s.CurrentPlan = <<>>
        THEN Ret(s1, "nil")
        ELSE LET found == teamScan(s.CurrentPlan[1].Steps, 1)
             IN  IF found # "none"
                 THEN Ret([s1 EXCEPT !.Goto = found], "nil")
                 ELSE IF s.PlanIterations >= s.MaxPlanIterations
                      THEN Ret([s1 EXCEPT !.Goto = Reporter], "nil")
                      ELSE Ret(s1, "nil")

(***************************************************************************)
(* agent/researcher: singleRouter, agent/coder: routerCoder.  Both store   *)
(* the agent's answer in the first step without a result.                  *)
(***************************************************************************)
RECURSIVE firstUnexecuted(_, _)
firstUnexecuted(steps, i) ==
    IF i > Len(steps) THEN 0
    ELSE IF steps[i].ExecutionRes = <<>> THEN i
    ELSE firstUnexecuted(steps, i + 1)

\* mutant: the loop does not break after the first step it fills
storeResult_noBreak(s, in) ==
    [s EXCEPT !.CurrentPlan[1].Steps =
        [i \in DOMAIN @ |->
            IF @[i].ExecutionRes = <<>>
            THEN [@[i] EXCEPT !.ExecutionRes = <<in.Content.text>>]
            ELSE @[i]]]

\* mutant: the result goes to the step the research team dispatched for,
\* the first step without a result whose type is research or processing
storeResult_atDispatched(s, in) ==
    LET steps == s.CurrentPlan[1].Steps
        open == {i \in DOMAIN steps :
                    /\ steps[i].ExecutionRes = <<>>
                    /\ steps[i].StepType \in {Research, Processing}}
    IN  IF open = {} THEN s
        ELSE LET i == CHOOSE i \in open : \A j \in open : i <= j
             IN  [s EXCEPT !.CurrentPlan[1].Steps[i].ExecutionRes = <<in.Content.text>>]

\* mutant: the agent's answer is not stored
storeResult_dropsResult(s, in) == s

storeResult(s, in) ==
    LET steps == s.CurrentPlan[1].Steps
        i == firstUnexecuted(steps, 1)
    IN  IF i = 0 THEN s
        ELSE [s EXCEPT !.CurrentPlan[1].Steps[i].ExecutionRes = <<in.Content.text>>]

singleRouter(s, in) ==
    IF s.CurrentPlan = <<>>
    THEN Ret(s, "panic")
    ELSE Ret([storeResult(s, in) EXCEPT !.Goto = ResearchTeam], "nil")

routerCoder(s, in) ==
    IF s.CurrentPlan = <<>>
    THEN Ret(s, "panic")
    ELSE Ret([storeResult(s, in) EXCEPT !.Goto = ResearchTeam], "nil")

(***************************************************************************)
(* agent/repoter: router.                                                  *)
(***************************************************************************)
\* mutant: the router returns whatever Goto held on entry
repoter_router_keepsGoto(s) == Ret(s, "nil")

repoter_router(s) == Ret([s EXCEPT !.Goto = END], "nil")

\* the router of a node, applied to the State and the message it is given
RouterOf(n, s, in) ==
    CASE n = Coordinator -> coordinator_router(s, in)
      [] n = BackgroundInvestigator -> investigator_router(s)
      [] n = Planner -> planner_router(s, in)
      [] n = Human -> human_router(s)
      [] n = ResearchTeam -> teamRouter(s)
      [] n = Researcher -> singleRouter(s, in)
      [] n = Coder -> routerCoder(s, in)
      [] n = Reporter -> repoter_router(s)

(***************************************************************************)
(* biz/eino: the older routers of the planner, the human feedback node,    *)
(* the research team, the researcher, the coder and the reporter.  Those   *)
(* that end in "return output, nil" drop the handler's error.              *)
(***************************************************************************)
routerPlanner(s, in) ==
    LET u == UnmarshalPlan(in.Content)
        s1 == [s EXCEPT !.Goto = END, !.CurrentPlan = <<u.plan>>]
    IN  IF u.err
        THEN Ret([s1 EXCEPT !.Goto = IF s.PlanIterations > 0 THEN Reporter ELSE END],
                 "nil")
        ELSE Ret([s1 EXCEPT !.PlanIterations = s.PlanIterations + 1,
                            !.Goto = IF u.plan.HasEnoughContext THEN Reporter
                                     ELSE Human],
                 "nil")

\* mutant: the feedback is cleared only when the handler returns no error
routerHuman_keepsOnInterrupt(s) ==
    LET s1 == [s EXCEPT !.Goto = ResearchTeam]
        done == [s1 EXCEPT !.InterruptFeedback = ""]
    IN  IF ~s.AutoAcceptedPlan
        THEN CASE s.InterruptFeedback = AcceptPlan -> Ret(done, "nil")
               [] s.InterruptFeedback = EditPlan ->
                      Ret([done EXCEPT !.Goto = Planner], "nil")
               [] OTHER -> Ret(s1, "InterruptAndRerun")
        ELSE Ret(done, "nil")

routerHuman(s) ==
    LET s1 == [s EXCEPT !.Goto = ResearchTeam]
        h == IF ~s.AutoAcceptedPlan
             THEN CASE s.InterruptFeedback = AcceptPlan -> Ret(s1, "nil")
                    [] s.InterruptFeedback = EditPlan ->
                           Ret([s1 EXCEPT !.Goto = Planner], "nil")
                    [] OTHER -> Ret(s1, "InterruptAndRerun")
             ELSE Ret([s1 EXCEPT !.Goto = ResearchTeam], "nil")
    IN  Ret([h.state EXCEPT !.InterruptFeedback = ""], h.err)

RECURSIVE routerResearchTeamScan(_, _)
routerResearchTeamScan(steps, i) ==
    IF i > Len(steps) THEN "none"
    ELSE IF steps[i].ExecutionRes # <<>> THEN routerResearchTeamScan(steps, i + 1)
    ELSE CASE steps[i].StepType = Research -> Researcher
           [] steps[i].StepType = Processing -> Coder
           [] OTHER -> routerResearchTeamScan(steps, i + 1)

routerResearchTeam(s) ==
    LET s1 == [s EXCEPT !.Goto = Planner]
    IN  IF s.CurrentPlan = <<>> THEN Ret(s1, "nil")
        ELSE LET g == routerResearchTeamScan(s.CurrentPlan[1].Steps, 1)
             IN  IF g # "none" THEN Ret([s1 EXCEPT !.Goto = g], "nil")
                 ELSE IF s.PlanIterations >= s.MaxPlanIterations
                 THEN Ret([s1 EXCEPT !.Goto = Reporter], "nil")
                 ELSE Ret(s1, "nil")

routerResearcher(s, in) ==
    IF s.CurrentPlan = <<>>
    THEN Ret(s, "panic")
    ELSE LET i == firstUnexecuted(s.CurrentPlan[1].Steps, 1)
             s1 == IF i = 0 THEN s
                   ELSE [s EXCEPT !.CurrentPlan[1].Steps[i].ExecutionRes =
                                      <<in.Content.text>>]
         IN  Ret([s1 EXCEPT !.Goto = ResearchTeam], "nil")

routerCoder_eino(s, in) ==
    IF s.CurrentPlan = <<>>
    THEN Ret(s, "panic")
    ELSE LET i == firstUnexecuted(s.CurrentPlan[1].Steps, 1)
             s1 == IF i = 0 THEN s
                   ELSE [s EXCEPT !.CurrentPlan[1].Steps[i].ExecutionRes =
                                      <<in.Content.text>>]
         IN  Ret([s1 EXCEPT !.Goto = ResearchTeam], "nil")

routerReporter(s) == Ret([s EXCEPT !.Goto = END], "nil")

\* the older router of a node
EinoRouterOf(n, s, in) ==
    CASE n = Planner -> routerPlanner(s, in)
      [] n = Human -> routerHuman(s)
      [] n = ResearchTeam -> routerResearchTeam(s)
      [] n = Researcher -> routerResearcher(s, in)
      [] n = Coder -> routerCoder_eino(s, in)
      [] n = Reporter -> routerReporter(s)

InputsOf(n) ==
    CASE n = Coordinator -> CoordinatorInputs
      [] n = Planner -> PlannerInputs
      [] n \in {Researcher, Coder, Reporter} -> AgentInputs
      [] OTHER -> {NoInput}

OutcomeOf(e) ==
    CASE e = "nil" -> "ok"
      [] e = "InterruptAndRerun" -> "interrupt"
      [] e = "panic" -> "panic"

(***************************************************************************)
(* entity/model: State.                                                    *)
(***************************************************************************)
UserMessages == <<"query">>

\* the State a run starts from, for given configuration values
stateGenFunc(maxPlanIterations, autoAccepted, enableInvestigation) ==
    [Messages |-> UserMessages,
     Goto |-> Coordinator,
     CurrentPlan |-> <<>>,
     Locale |-> "",
     PlanIterations |-> 0,
     BackgroundInvestigationResults |-> "",
     InterruptFeedback |-> "",
     MaxPlanIterations |-> maxPlanIterations,
     MaxStepNum |-> 3,
     AutoAcceptedPlan |-> autoAccepted,
     EnableBackgroundInvestigation |-> enableInvestigation]

Feedbacks == {"", AcceptPlan, EditPlan, "maybe"}

(***************************************************************************)
(* The load stage of a node, run before its model call: whether it faults  *)
(* on the State it is given.                                               *)
(***************************************************************************)
AllExecuted(steps) == \A i \in 1..Len(steps) : steps[i].ExecutionRes # <<>>

\* agent/researcher and agent/coder loadMsg: the plan is dereferenced, and a
\* step without a result must exist
agentLoadFaults(s) ==
    \/ s.CurrentPlan = <<>>
    \/ firstUnexecuted(s.CurrentPlan[1].Steps, 1) = 0

\* agent/repoter loadMsg: the plan and every step's result are dereferenced
repoterLoadFaults(s) ==
    \/ s.CurrentPlan = <<>>
    \/ ~AllExecuted(s.CurrentPlan[1].Steps)

LoadFaults(n, s) ==
    CASE n \in {Researcher, Coder} -> agentLoadFaults(s)
      [] n = Reporter -> repoterLoadFaults(s)
      [] OTHER -> FALSE

(***************************************************************************)
(* agent/investigator: search.  The tool list either holds a tool whose    *)
(* name ends in "search" or does not; the tool's run succeeds or fails.    *)
(***************************************************************************)
NoMcp == [tools |-> "unused", run |-> "unused"]
McpBehaviours ==
    [tools : {"search"}, run : {"ok", "error"}]
        \cup {[tools |-> "nosearch", run |-> "unused"],
              [tools |-> "listerror", run |-> "unused"]}

search(s, m) ==
    CASE m.tools = "listerror" -> Ret(s, "error")
      [] m.tools = "nosearch" -> Ret(s, "panic")
      [] m.run = "error" -> Ret(s, "error")
      [] OTHER -> Ret([s EXCEPT !.BackgroundInvestigationResults = "found"], "nil")

(***************************************************************************)
(* agent.BuildAgentGraph: START leads to the coordinator, and every node   *)
(* carries a branch that reads State.Goto.                                 *)
(***************************************************************************)
\* mutant: the branch sends research_team straight to the researcher
routeToNextAgent_skipsTeam(s) == IF s.Goto = ResearchTeam THEN Researcher ELSE s.Goto

routeToNextAgent(s) == s.Goto

\* the graph's wiring: one static edge, and one branch on every agent node
START == "start"

\* mutant: a static edge from the planner to the reporter beside its branch
Edges_fanOut == {<<START, Coordinator>>, <<Planner, Reporter>>}

Edges == {<<START, Coordinator>>}

Branches == GetAgentNameList

\* the nodes the engine activates once node n has completed with State s
Successors(n, s) ==
    {e[2] : e \in {d \in Edges : d[1] = n}}
        \cup (IF n \in Branches THEN {routeToNextAgent(s)} ELSE {})

\* where the engine goes once a node's pipeline has ended
Dispatch(n, r) ==
    CASE r.err = "nil" -> CHOOSE m \in Successors(n, r.state) : TRUE
      [] r.err = "InterruptAndRerun" -> "suspended"
      [] OTHER -> "aborted"

\* the contents offered to the planner's router in a run: the steps of a
\* plan come from the model without results (results are what the run adds),
\* and exploration stops counting successful plans at MaxIterations
FreshPlans ==
    {m \in PlannerInputs :
        \A i \in DOMAIN m.Content.plan.Steps :
            m.Content.plan.Steps[i].ExecutionRes = <<>>}

PlannerOffers(s) ==
    IF s.PlanIterations < MaxIterations THEN FreshPlans
    ELSE {m \in FreshPlans : m.Content.kind # "plan"}

Offers(n, s) == IF n = Planner THEN PlannerOffers(s) ELSE InputsOf(n)

\* one node of the graph runs (the engine has scheduled it): load stage,
\* model call, router
RunNode(n) ==
    /\ node' = n
    /\ mcp' = NoMcp
    /\ UNCHANGED guardVars
    /\ UNCHANGED streamVars
    /\ UNCHANGED storeVars
    /\ IF LoadFaults(n, state)
       THEN /\ state' = state
            /\ input' = NoInput
            /\ outcome' = "panic"
            /\ sched' = "aborted"
            /\ arrived' = arrived
            /\ parsed' = parsed
       ELSE \E in \in Offers(n, state) :
                LET r == RouterOf(n, state, in)
                IN  /\ state' = r.state
                    /\ input' = in
                    /\ outcome' = OutcomeOf(r.err)
                    /\ sched' = Dispatch(n, r)
                    /\ arrived' = IF r.err # "InterruptAndRerun" THEN <<>>
                                  ELSE IF arrived = <<>> THEN <<state>>
                                  ELSE arrived
                    /\ parsed' = IF n = Planner /\ ~UnmarshalPlan(in.Content).err
                                 THEN parsed + 1 ELSE parsed

CoordinatorNode == sched = Coordinator /\ RunNode(Coordinator)
PlannerNode == sched = Planner /\ RunNode(Planner)
HumanNode == sched = Human /\ RunNode(Human)
ResearchTeamNode == sched = ResearchTeam /\ RunNode(ResearchTeam)
ResearcherNode == sched = Researcher /\ RunNode(Researcher)
CoderNode == sched = Coder /\ RunNode(Coder)
ReporterNode == sched = Reporter /\ RunNode(Reporter)

\* the investigator's pipeline is search, then router
InvestigatorNode ==
    /\ sched = BackgroundInvestigator
    /\ node' = BackgroundInvestigator
    /\ input' = NoInput
    /\ \E m \in McpBehaviours :
           LET f == search(state, m)
               r == IF f.err = "nil" THEN investigator_router(f.state) ELSE f
           IN  /\ mcp' = m
               /\ state' = r.state
               /\ outcome' = IF r.err = "error" THEN "error" ELSE OutcomeOf(r.err)
               /\ sched' = Dispatch(BackgroundInvestigator, r)
    /\ arrived' = arrived
    /\ parsed' = parsed
    /\ UNCHANGED guardVars
    /\ UNCHANGED streamVars
    /\ UNCHANGED storeVars

(***************************************************************************)
(* entity/model: the State's JSON form as its field tags declare it.  A    *)
(* field tagged omitempty is left out when it holds its zero value; a      *)
(* field absent from the document decodes to its zero value.               *)
(***************************************************************************)
StateFields == DOMAIN stateGenFunc(0, FALSE, FALSE)

OmitEmpty ==
    {"Messages", "Goto", "CurrentPlan", "Locale", "PlanIterations",
     "InterruptFeedback", "MaxPlanIterations", "MaxStepNum"}

ZeroOf(k) ==
    CASE k \in {"Messages", "CurrentPlan"} -> <<>>
      [] k \in {"PlanIterations", "MaxPlanIterations", "MaxStepNum"} -> 0
      [] k \in {"AutoAcceptedPlan", "EnableBackgroundInvestigation"} -> FALSE
      [] OTHER -> ""

\* mutant: plan_iterations is not written to the document
MarshalState_skipsIterations(s) ==
    [k \in {f \in StateFields \ {"PlanIterations"} :
                ~(f \in OmitEmpty /\ s[f] = ZeroOf(f))} |-> s[k]]

MarshalState(s) ==
    [k \in {f \in StateFields : ~(f \in OmitEmpty /\ s[f] = ZeroOf(f))} |-> s[k]]

UnmarshalState(doc) ==
    [k \in StateFields |-> IF k \in DOMAIN doc THEN doc[k] ELSE ZeroOf(k)]

\* the caller resumes a suspended run with a feedback value: the State is
\* read back from the document written at the suspension, the feedback is
\* set, and the engine runs the interrupted node again
Resume ==
    /\ sched = "suspended"
    /\ \E v \in Feedbacks :
           state' = [UnmarshalState(MarshalState(state)) EXCEPT !.InterruptFeedback = v]
    /\ sched' = node
    /\ UNCHANGED <<node, input, outcome, mcp, arrived, parsed, guardVars, streamVars, storeVars>>

Init ==
    /\ \E m \in 0..MaxConfigured, a \in BOOLEAN, e \in BOOLEAN :
           state = stateGenFunc(m, a, e)
    /\ node = ""
    /\ input = NoInput
    /\ outcome = "none"
    /\ mcp = NoMcp
    /\ sched \in Successors(START, state)
    /\ arrived = <<>>
    /\ parsed = 0
    /\ inputList = <<>>
    /\ maxLimit = 0
    /\ sr = NoStream
    /\ loop = NoLoop
    /\ checkpointImpl = NoStores
    /\ callers = NoCallers

Next ==
    \/ CoordinatorNode
    \/ InvestigatorNode
    \/ PlannerNode
    \/ HumanNode
    \/ ResearchTeamNode
    \/ ResearcherNode
    \/ CoderNode
    \/ ReporterNode
    \/ Resume

Spec == Init /\ [][Next]_vars

\* runs with AutoAcceptedPlan on, which are never suspended: the engine
\* runs the node it has scheduled, and that node's invocation completes
InitAuto == Init /\ state.AutoAcceptedPlan

NextAuto ==
    \/ CoordinatorNode
    \/ InvestigatorNode
    \/ PlannerNode
    \/ HumanNode
    \/ ResearchTeamNode
    \/ ResearcherNode
    \/ CoderNode
    \/ ReporterNode

SpecLive == InitAuto /\ [][NextAuto]_vars /\ WF_vars(NextAuto)

(***************************************************************************)
(* The routers on their own: each is invoked once on a State drawn from    *)
(* the States below, which need not arise in a run (a stale or empty Goto, *)
(* an absent plan, any feedback).  The fields a router reads range over    *)
(* their whole domain; the others come from two backgrounds.               *)
(***************************************************************************)
ZeroState ==
    [stateGenFunc(0, FALSE, FALSE) EXCEPT !.Goto = ""]

BusyState ==
    [Messages |-> UserMessages,
     Goto |-> "",
     CurrentPlan |-> <<[Title |-> "t", Thought |-> "th", HasEnoughContext |-> FALSE,
                        Steps |-> <<[StepType |-> Research, ExecutionRes |-> <<"x">>],
                                    [StepType |-> Processing, ExecutionRes |-> <<>>]>>]>>,
     Locale |-> "en-US",
     PlanIterations |-> 1,
     BackgroundInvestigationResults |-> "found",
     InterruptFeedback |-> AcceptPlan,
     MaxPlanIterations |-> 1,
     MaxStepNum |-> 3,
     AutoAcceptedPlan |-> TRUE,
     EnableBackgroundInvestigation |-> TRUE]

Backgrounds == {ZeroState, BusyState}

\* Goto on entry: the zero value, the node's own name (what the branch left
\* there) or END
StaleGotos(n) == {"", n, END}

WithGoto(S, n) == {[s EXCEPT !.Goto = g] : s \in S, g \in StaleGotos(n)}

RouterStates(n) ==
    CASE n = Coordinator ->
             WithGoto({[b EXCEPT !.EnableBackgroundInvestigation = e, !.Locale = l] :
                          b \in Backgrounds, e \in BOOLEAN, l \in {"", "en-US"}}, n)
      [] n = Planner ->
             WithGoto({[b EXCEPT !.PlanIterations = k] :
                          b \in Backgrounds, k \in 0..MaxIterations}, n)
      [] n = Human ->
             WithGoto({[b EXCEPT !.AutoAcceptedPlan = a, !.InterruptFeedback = f] :
                          b \in Backgrounds, a \in BOOLEAN, f \in Feedbacks}, n)
      [] n = ResearchTeam ->
             WithGoto({[b EXCEPT !.CurrentPlan = p, !.PlanIterations = k,
                                 !.MaxPlanIterations = m] :
                          b \in Backgrounds, p \in Ptr(Plan),
                          k \in 0..MaxIterations, m \in 0..MaxConfigured}, n)
      [] n \in {Researcher, Coder} ->
             WithGoto({[b EXCEPT !.CurrentPlan = p] :
                          b \in Backgrounds, p \in Ptr(Plan)}, n)
      [] OTHER -> WithGoto(Backgrounds, n)

Invoke(n) ==
    /\ node' = n
    /\ mcp' = NoMcp
    /\ sched' = "returned"
    /\ arrived' = arrived
    /\ parsed' = parsed
    /\ UNCHANGED guardVars
    /\ UNCHANGED streamVars
    /\ UNCHANGED storeVars
    /\ \E in \in InputsOf(n) :
           LET r == RouterOf(n, state, in)
           IN  /\ state' = r.state
               /\ input' = in
               /\ outcome' = OutcomeOf(r.err)

InvokeCoordinator == sched = Coordinator /\ Invoke(Coordinator)
InvokeInvestigator == sched = BackgroundInvestigator /\ Invoke(BackgroundInvestigator)
InvokePlanner == sched = Planner /\ Invoke(Planner)
InvokeHuman == sched = Human /\ Invoke(Human)
InvokeResearchTeam == sched = ResearchTeam /\ Invoke(ResearchTeam)
InvokeResearcher == sched = Researcher /\ Invoke(Researcher)
InvokeCoder == sched = Coder /\ Invoke(Coder)
InvokeReporter == sched = Reporter /\ Invoke(Reporter)

InitRouters ==
    /\ sched \in GetAgentNameList
    /\ state \in RouterStates(sched)
    /\ node = ""
    /\ input = NoInput
    /\ outcome = "none"
    /\ mcp = NoMcp
    /\ arrived = <<>>
    /\ parsed = 0
    /\ inputList = <<>>
    /\ maxLimit = 0
    /\ sr = NoStream
    /\ loop = NoLoop
    /\ checkpointImpl = NoStores
    /\ callers = NoCallers

NextRouters ==
    \/ InvokeCoordinator
    \/ InvokeInvestigator
    \/ InvokePlanner
    \/ InvokeHuman
    \/ InvokeResearchTeam
    \/ InvokeResearcher
    \/ InvokeCoder
    \/ InvokeReporter

SpecRouters == InitRouters /\ [][NextRouters]_vars

(***************************************************************************)
(* comm.ModifyInputFunc, the MessageModifier of the researcher's and the   *)
(* coder's ReAct agent, on its own.  A message is a pointer (nil or one    *)
(* content); a content is a string, a sequence of bytes.                   *)
(***************************************************************************)
Chars == {"a", "b"}
Contents == SeqsUpTo(Chars, MaxContent)
InputLists == SeqsUpTo(Ptr(Contents), MaxMessages)

\* input.Content[length-maxLimit:]
Suffix(c, n) == SubSeq(c, Len(c) - n + 1, Len(c))

\* mutant: the slice keeps the head of the content, Content[:maxLimit]
ModifyInputFunc_keepsHead(list, limit) ==
    [i \in DOMAIN list |->
        IF list[i] = <<>> THEN <<>>
        ELSE IF Len(list[i][1]) >= limit
             THEN <<SubSeq(list[i][1], 1, limit)>>
             ELSE list[i]]

ModifyInputFunc(list, limit) ==
    [i \in DOMAIN list |->
        IF list[i] = <<>> THEN <<>>
        ELSE IF Len(list[i][1]) >= limit
             THEN <<Suffix(list[i][1], limit)>>
             ELSE list[i]]

ModifyInput ==
    /\ sched = "guard"
    /\ inputList' = ModifyInputFunc(inputList, maxLimit)
    /\ sched' = "guarded"
    /\ UNCHANGED <<state, node, input, outcome, mcp, arrived, parsed, maxLimit, streamVars, storeVars>>

InitGuard ==
    /\ inputList \in InputLists
    /\ maxLimit \in 0..MaxLimit
    /\ sched = "guard"
    /\ state = ZeroState
    /\ node = ""
    /\ input = NoInput
    /\ outcome = "none"
    /\ mcp = NoMcp
    /\ arrived = <<>>
    /\ parsed = 0
    /\ sr = NoStream
    /\ loop = NoLoop
    /\ checkpointImpl = NoStores
    /\ callers = NoCallers

NextGuard == ModifyInput

SpecGuard == InitGuard /\ [][NextGuard]_vars

(***************************************************************************)
(* The two loops that read a stream: comm.ToolCallChecker (the ReAct       *)
(* agents' StreamToolCallChecker) and the goroutine started by             *)
(* LoggerCallback.OnEndWithStreamOutput.  A stream delivers its frames in  *)
(* order and then io.EOF or a receive error.  A frame carries tool calls   *)
(* or not; handling a frame in the callback may panic (faulty).            *)
(***************************************************************************)
Frame == [calls : 0..1, faulty : BOOLEAN]
Streams ==
    [frames : SeqsUpTo(Frame, MaxFrames), end : {"EOF", "error"},
     pos : {0}, closed : {FALSE}]

\* sr.Recv()
Recv(s) ==
    IF s.pos < Len(s.frames)
    THEN [msg |-> <<s.frames[s.pos + 1]>>, err |-> "nil",
          sr |-> [s EXCEPT !.pos = s.pos + 1]]
    ELSE [msg |-> <<>>, err |-> s.end, sr |-> s]

\* sr.Close()
Close(s) == [s EXCEPT !.closed = TRUE]

\* mutant: no deferred call closes the stream
checkerDeferred_none(s) == s

\* defer sr.Close()
checkerDeferred(s) == Close(s)

\* mutant: the loop returns after the first message, tool call or not
RECURSIVE ToolCallChecker_firstOnly(_)
ToolCallChecker_firstOnly(s) ==
    LET r == Recv(s)
    IN  IF r.err = "EOF"
        THEN [sr |-> checkerDeferred(r.sr), found |-> FALSE, err |-> "nil"]
        ELSE IF r.err # "nil"
        THEN [sr |-> checkerDeferred(r.sr), found |-> FALSE, err |-> r.err]
        ELSE [sr |-> checkerDeferred(r.sr), found |-> r.msg[1].calls > 0, err |-> "nil"]

RECURSIVE ToolCallChecker(_)
ToolCallChecker(s) ==
    LET r == Recv(s)
    IN  IF r.err = "EOF"
        THEN [sr |-> checkerDeferred(r.sr), found |-> FALSE, err |-> "nil"]
        ELSE IF r.err # "nil"
        THEN [sr |-> checkerDeferred(r.sr), found |-> FALSE, err |-> r.err]
        ELSE IF r.msg[1].calls > 0
        THEN [sr |-> checkerDeferred(r.sr), found |-> TRUE, err |-> "nil"]
        ELSE ToolCallChecker(r.sr)

\* the for loop of the callback's goroutine: how it is left
RECURSIVE recvFrames(_)
recvFrames(s) ==
    LET r == Recv(s)
    IN  IF r.err = "EOF" THEN [sr |-> r.sr, exit |-> "break"]
        ELSE IF r.err # "nil" THEN [sr |-> r.sr, exit |-> "return"]
        ELSE IF r.msg[1].faulty THEN [sr |-> r.sr, exit |-> "panic"]
        ELSE recvFrames(r.sr)

\* the goroutine: the deferred recover, then the deferred output.Close()
OnEndWithStreamOutput(s) ==
    LET e == recvFrames(s)
    IN  [sr |-> Close(e.sr), exit |-> e.exit]

CheckToolCalls ==
    /\ loop.who = "checker"
    /\ loop.pc = "start"
    /\ LET r == ToolCallChecker(sr)
       IN  /\ sr' = r.sr
           /\ loop' = [loop EXCEPT !.pc = "done", !.found = r.found, !.err = r.err]
    /\ UNCHANGED <<state, node, input, outcome, mcp, sched, arrived, parsed, guardVars,
                   storeVars>>

StreamOutput ==
    /\ loop.who = "callback"
    /\ loop.pc = "start"
    /\ LET r == OnEndWithStreamOutput(sr)
       IN  /\ sr' = r.sr
           /\ loop' = [loop EXCEPT !.pc = "done", !.err = r.exit]
    /\ UNCHANGED <<state, node, input, outcome, mcp, sched, arrived, parsed, guardVars,
                   storeVars>>

InitStream ==
    /\ sr \in Streams
    /\ loop \in [who : {"checker", "callback"}, pc : {"start"},
                  found : {FALSE}, err : {"nil"}]
    /\ state = ZeroState
    /\ node = ""
    /\ input = NoInput
    /\ outcome = "none"
    /\ mcp = NoMcp
    /\ sched = "stream"
    /\ checkpointImpl = NoStores
    /\ callers = NoCallers
    /\ arrived = <<>>
    /\ parsed = 0
    /\ inputList = <<>>
    /\ maxLimit = 0

NextStream ==
    \/ CheckToolCalls
    \/ StreamOutput

SpecStream == InitStream /\ [][NextStream]_vars

(***************************************************************************)
(* repo/checkpoint, called through the handles NewCheckPoint returns, one  *)
(* call at a time.  callers.last is the bytes last Set under each id,      *)
(* through whatever handle.                                                *)
(***************************************************************************)
\* mutant: every call returns a store of its own
NewCheckPoint_fresh(h) == h

\* return &checkpointImpl
NewCheckPoint(h) == 0

\* data, ok := c.buf[checkPointID]
checkpoint_Get(buf, id) == [data |-> buf[id], ok |-> buf[id] # <<>>]

\* c.buf[checkPointID] = checkPoint
checkpoint_Set(buf, id, b) == [buf EXCEPT ![id] = <<b>>]

OtherVars ==
    <<state, node, input, outcome, mcp, sched, arrived, parsed, guardVars, streamVars>>

CallGet ==
    /\ \E h \in Handles, id \in Ids :
           LET r == checkpoint_Get(checkpointImpl[NewCheckPoint(h)], id)
           IN  callers' = [callers EXCEPT
                              !.ret = [op |-> "get", h |-> h, id |-> id,
                                       data |-> r.data, ok |-> r.ok]]
    /\ UNCHANGED checkpointImpl
    /\ UNCHANGED OtherVars

CallSet ==
    /\ \E h \in Handles, id \in Ids, b \in Bytes :
           /\ checkpointImpl' =
                  [checkpointImpl EXCEPT
                      ![NewCheckPoint(h)] = checkpoint_Set(@, id, b)]
           /\ callers' = [callers EXCEPT
                              !.ret = [op |-> "set", h |-> h, id |-> id,
                                       data |-> <<b>>, ok |-> TRUE],
                              !.last = [@ EXCEPT ![id] = <<b>>]]
    /\ UNCHANGED OtherVars

InitStore ==
    /\ checkpointImpl = NoStores
    /\ callers = NoCallers
    /\ state = ZeroState
    /\ node = ""
    /\ input = NoInput
    /\ outcome = "none"
    /\ mcp = NoMcp
    /\ sched = "store"
    /\ arrived = <<>>
    /\ parsed = 0
    /\ inputList = <<>>
    /\ maxLimit = 0
    /\ sr = NoStream
    /\ loop = NoLoop

NextStore ==
    \/ CallGet
    \/ CallSet

SpecStore == InitStore /\ [][NextStore]_vars

(***************************************************************************)
(* repo/checkpoint, called by several runs at once.  Neither method takes  *)
(* a lock, so an access begins whenever its run calls it and ends later.   *)
(* Once a Set has overlapped another access, Go leaves the outcome of the  *)
(* accesses open: the map and the values read are then arbitrary.          *)
(***************************************************************************)
\* the checkpoint id a run reads and writes under
IdOf(r) == IF r % 2 = 1 THEN "id1" ELSE "id2"

Conflict(acc, r, op) ==
    \E q \in Runs \ {r} : acc[q].op # "idle" /\ "set" \in {acc[q].op, op}

BeginGet(r) ==
    /\ callers.acc[r] = Idle
    /\ LET id == IdOf(r)
       IN  callers' = [callers EXCEPT
                          !.acc[r] = [op |-> "get", id |-> id, data |-> <<>>],
                          !.raced = @ \/ Conflict(callers.acc, r, "get")]
    /\ UNCHANGED checkpointImpl

BeginSet(r) ==
    /\ callers.acc[r] = Idle
    /\ \E b \in Bytes :
           callers' = [callers EXCEPT
                          !.acc[r] = [op |-> "set", id |-> IdOf(r), data |-> <<b>>],
                          !.raced = @ \/ Conflict(callers.acc, r, "set")]
    /\ UNCHANGED checkpointImpl

EndGet(r) ==
    /\ callers.acc[r].op = "get"
    /\ LET id == callers.acc[r].id
           got == IF callers.raced THEN Ptr(Bytes)
                  ELSE {checkpoint_Get(checkpointImpl[NewCheckPoint(r)], id).data}
       IN  \E d \in got :
               callers' = [callers EXCEPT
                              !.acc[r] = Idle,
                              !.ret = [op |-> "get", h |-> r, id |-> id,
                                       data |-> d, ok |-> d # <<>>]]
    /\ UNCHANGED checkpointImpl

EndSet(r) ==
    /\ callers.acc[r].op = "set"
    /\ LET id == callers.acc[r].id
           b == callers.acc[r].data[1]
           a == NewCheckPoint(r)
           bufs == IF callers.raced THEN Maps
                   ELSE {checkpoint_Set(checkpointImpl[a], id, b)}
       IN  /\ \E m \in bufs : checkpointImpl' = [checkpointImpl EXCEPT ![a] = m]
           /\ callers' = [callers EXCEPT !.acc[r] = Idle]

RunGets == \E r \in Runs : BeginGet(r) /\ UNCHANGED OtherVars
RunSets == \E r \in Runs : BeginSet(r) /\ UNCHANGED OtherVars
GetReturns == \E r \in Runs : EndGet(r) /\ UNCHANGED OtherVars
SetReturns == \E r \in Runs : EndSet(r) /\ UNCHANGED OtherVars

NextRuns ==
    \/ RunGets
    \/ RunSets
    \/ GetReturns
    \/ SetReturns

SpecRuns == InitStore /\ [][NextRuns]_vars

(***************************************************************************)
(* Properties.                                                             *)
(***************************************************************************)
GotoValues == getAgentGraphMap \cup {""}

\* the first step without a result, stated on the set of such steps
OpenSteps(steps) == {i \in DOMAIN steps : steps[i].ExecutionRes = <<>>}
FirstOpen(steps) == CHOOSE i \in OpenSteps(steps) : \A j \in OpenSteps(steps) : i <= j
KnownTypes(steps) == \A i \in DOMAIN steps : steps[i].StepType \in {Research, Processing}

\* C1: whenever a router returns (normally or with interrupt-and-rerun),
\* State.Goto is a key of the dispatcher's branch map, and it is the value
\* this invocation wrote: the same whatever Goto held on entry.
C1_GotoSetByEveryRouter ==
    [][ outcome' \in {"ok", "interrupt"} =>
          /\ state'.Goto \in getAgentGraphMap
          /\ \A g \in GotoValues :
                 RouterOf(node', [state EXCEPT !.Goto = g], input').state.Goto
                     = state'.Goto ]_vars

\* C1 witness: the research team's router has returned having routed to the
\* coder, from an entry Goto that was empty, its own name or END.
C1_Witness ==
    /\ sched = "returned"
    /\ node = ResearchTeam
    /\ outcome = "ok"
    /\ state.Goto = Coder

\* C2: a run starts at the coordinator; after a node completes, the node
\* that runs next is the one State.Goto names at that moment; once a node
\* completes with Goto = END nothing runs any more, and while Goto names a
\* node the run goes on.  (A node that signalled interrupt-and-rerun has not
\* completed: the resumed run executes it again.)
C2_DispatchFollowsGoto ==
    /\ [][ /\ (node = "" => node' = Coordinator)
           /\ (outcome = "ok" => state.Goto # END /\ node' = state.Goto) ]_vars
    /\ [](outcome = "ok" /\ state.Goto # END => ENABLED Next)

\* C2 witness: a run that went through the research team and a coder step
\* has completed its reporter and stopped with Goto = END.
C2_Witness ==
    /\ node = Reporter
    /\ outcome = "ok"
    /\ state.Goto = END
    /\ sched = END
    /\ state.CurrentPlan # <<>>
    /\ \E i \in DOMAIN state.CurrentPlan[1].Steps :
           state.CurrentPlan[1].Steps[i].ExecutionRes = <<"out">>

\* a hand_to_planner call whose arguments parse and carry the locale l
Handoff(call, l) ==
    /\ call.Name = HandToPlanner
    /\ call.Arguments.kind = "object"
    /\ call.Arguments.locale = l

HandoffGoto(s) ==
    IF s.EnableBackgroundInvestigation THEN BackgroundInvestigator ELSE Planner

\* C3 as claimed: when the response carries, at any position, a
\* hand_to_planner call with well-formed arguments whose locale is L, the
\* router leaves Locale = L and hands off; with no tool call it leaves
\* Goto = END and the locale alone.
C3_Original ==
    [][ node' = Coordinator =>
          /\ \A l \in Locales :
                 (\E i \in DOMAIN input'.ToolCalls : Handoff(input'.ToolCalls[i], l))
                     => state'.Locale = l /\ state'.Goto = HandoffGoto(state)
          /\ input'.ToolCalls = <<>>
                 => state'.Goto = END /\ state'.Locale = state.Locale ]_vars

\* C3 as amended: when the FIRST tool call of the response is a
\* hand_to_planner call with well-formed arguments whose locale is L, the
\* router leaves Locale = L and Goto = background_investigator if
\* EnableBackgroundInvestigation, else planner; with no tool call it leaves
\* Goto = END and the locale unchanged.
C3_CoordinatorHandoff ==
    [][ node' = Coordinator =>
          /\ \A l \in Locales :
                 (input'.ToolCalls # <<>> /\ Handoff(input'.ToolCalls[1], l))
                     => state'.Locale = l /\ state'.Goto = HandoffGoto(state)
          /\ input'.ToolCalls = <<>>
                 => state'.Goto = END /\ state'.Locale = state.Locale ]_vars

\* C3 witness: the coordinator's router handed a zh-CN request to the
\* background investigator.
C3_Witness ==
    /\ sched = "returned"
    /\ node = Coordinator
    /\ input.ToolCalls # <<>>
    /\ Handoff(input.ToolCalls[1], "zh-CN")
    /\ state.EnableBackgroundInvestigation
    /\ state.Locale = "zh-CN"
    /\ state.Goto = BackgroundInvestigator

\* C4: when the planner's router cannot parse the content, it leaves
\* Goto = reporter if PlanIterations was above 0 and Goto = END otherwise,
\* leaves PlanIterations as it was, and returns without an error.
C4_PlannerParseFailure ==
    [][ node' = Planner /\ input'.Content.kind # "plan" =>
          /\ state'.Goto = IF state.PlanIterations > 0 THEN Reporter ELSE END
          /\ state'.PlanIterations = state.PlanIterations
          /\ outcome' = "ok" ]_vars

\* C4 witness: the planner's router met unparsable content after an earlier
\* plan and routed to the reporter.
C4_Witness ==
    /\ sched = "returned"
    /\ node = Planner
    /\ input.Content.kind = "invalid"
    /\ state.PlanIterations = 1
    /\ state.Goto = Reporter

\* C5: when the planner's router parses a plan, PlanIterations grows by
\* exactly one and Goto is reporter if the plan has enough context and
\* human_feedback otherwise.
C5_PlannerParseSuccess ==
    [][ node' = Planner /\ input'.Content.kind = "plan" =>
          /\ state'.PlanIterations = state.PlanIterations + 1
          /\ state'.Goto = IF input'.Content.plan.HasEnoughContext
                           THEN Reporter ELSE Human ]_vars

\* C5 witness: the planner's router parsed a plan without enough context
\* and routed to human feedback.
C5_Witness ==
    /\ sched = "returned"
    /\ node = Planner
    /\ input.Content.kind = "plan"
    /\ ~input.Content.plan.HasEnoughContext
    /\ state.PlanIterations = 2
    /\ state.Goto = Human

\* C6: the research team's router leaves Goto = planner when there is no
\* plan; for a plan whose steps are all typed research or processing and
\* that has a step without a result, Goto follows the type of the first
\* such step: researcher for research, coder for processing.
C6_TeamDispatch ==
    [][ node' = ResearchTeam =>
          /\ state.CurrentPlan = <<>> => state'.Goto = Planner
          /\ state.CurrentPlan # <<>> =>
                 LET steps == state.CurrentPlan[1].Steps
                 IN  KnownTypes(steps) /\ OpenSteps(steps) # {} =>
                         state'.Goto =
                             IF steps[FirstOpen(steps)].StepType = Research
                             THEN Researcher ELSE Coder ]_vars

\* C6 witness: the router skipped an executed processing step and routed to
\* the researcher for the research step after it.
C6_Witness ==
    /\ sched = "returned"
    /\ node = ResearchTeam
    /\ state.CurrentPlan # <<>>
    /\ Len(state.CurrentPlan[1].Steps) = 2
    /\ state.CurrentPlan[1].Steps[1].StepType = Processing
    /\ state.CurrentPlan[1].Steps[1].ExecutionRes # <<>>
    /\ state.CurrentPlan[1].Steps[2].StepType = Research
    /\ state.CurrentPlan[1].Steps[2].ExecutionRes = <<>>
    /\ state.Goto = Researcher

\* C7: when every step of the plan has a result (a plan without steps
\* included), the research team's router leaves Goto = reporter if
\* PlanIterations >= MaxPlanIterations and Goto = planner otherwise.
C7_TeamAllExecuted ==
    [][ node' = ResearchTeam /\ state.CurrentPlan # <<>>
            /\ OpenSteps(state.CurrentPlan[1].Steps) = {} =>
          state'.Goto = IF state.PlanIterations >= state.MaxPlanIterations
                        THEN Reporter ELSE Planner ]_vars

\* C7 witness: with the budget exactly used up and both steps executed the
\* router routed to the reporter.
C7_Witness ==
    /\ sched = "returned"
    /\ node = ResearchTeam
    /\ state.CurrentPlan # <<>>
    /\ Len(state.CurrentPlan[1].Steps) = 2
    /\ OpenSteps(state.CurrentPlan[1].Steps) = {}
    /\ state.PlanIterations = 1
    /\ state.MaxPlanIterations = 1
    /\ state.Goto = Reporter

\* C8: the human feedback router leaves Goto = research_team when the plan
\* is auto-accepted, whatever the feedback; otherwise accepted gives
\* research_team, edit_plan gives planner, and any other feedback makes it
\* signal interrupt-and-rerun.
C8_HumanRouting ==
    [][ node' = Human =>
          IF state.AutoAcceptedPlan
          THEN outcome' = "ok" /\ state'.Goto = ResearchTeam
          ELSE CASE state.InterruptFeedback = AcceptPlan ->
                        outcome' = "ok" /\ state'.Goto = ResearchTeam
                 [] state.InterruptFeedback = EditPlan ->
                        outcome' = "ok" /\ state'.Goto = Planner
                 [] OTHER -> outcome' = "interrupt" ]_vars

\* C8 witness: without auto-accept, the router completed with Goto =
\* planner (the edit_plan path).
C8_Witness ==
    /\ sched = "returned"
    /\ node = Human
    /\ ~state.AutoAcceptedPlan
    /\ outcome = "ok"
    /\ state.Goto = Planner

\* C9: whenever the human feedback router returns without signalling
\* interrupt-and-rerun, InterruptFeedback is empty.
C9_FeedbackConsumed ==
    node = Human /\ outcome = "ok" => state.InterruptFeedback = ""

\* C9 witness: the router completed on the accepted path of a plan that is
\* not auto-accepted.
C9_Witness ==
    /\ sched = "returned"
    /\ node = Human
    /\ outcome = "ok"
    /\ ~state.AutoAcceptedPlan
    /\ state.Goto = ResearchTeam
    /\ state.InterruptFeedback = ""

\* C10 as claimed: when the human feedback router signals
\* interrupt-and-rerun, every field of State is as it was before.
C10_Original ==
    [][ node' = Human /\ outcome' = "interrupt" => state' = state ]_vars

\* C10 as amended: when the human feedback router signals
\* interrupt-and-rerun, every field of State other than Goto and
\* InterruptFeedback is as it was before, Goto is research_team and
\* InterruptFeedback is empty; invoking the router again on that State
\* signals interrupt-and-rerun again and changes nothing.
C10_InterruptFrame ==
    [][ node' = Human /\ outcome' = "interrupt" =>
          /\ state' = [state EXCEPT !.Goto = ResearchTeam, !.InterruptFeedback = ""]
          /\ human_router(state') = Ret(state', "InterruptAndRerun") ]_vars

\* C10 witness: the router has signalled interrupt-and-rerun on a State
\* that kept its plan and counters.
C10_Witness ==
    /\ sched = "returned"
    /\ node = Human
    /\ outcome = "interrupt"
    /\ state.Goto = ResearchTeam
    /\ state.InterruptFeedback = ""
    /\ state.CurrentPlan # <<>>
    /\ state.PlanIterations = 1

\* C11: when the researcher's or the coder's router is given a plan with a
\* step lacking a result, afterwards the first such step in list order
\* holds the model's output, every other step and the rest of the plan are
\* as before, and Goto = research_team.
C11_StoreFrame ==
    [][ node' \in {Researcher, Coder} /\ state.CurrentPlan # <<>>
            /\ OpenSteps(state.CurrentPlan[1].Steps) # {} =>
          LET steps == state.CurrentPlan[1].Steps
              after == state'.CurrentPlan[1].Steps
              first == FirstOpen(steps)
          IN  /\ outcome' = "ok"
              /\ state'.Goto = ResearchTeam
              /\ DOMAIN after = DOMAIN steps
              /\ after[first].ExecutionRes = <<input'.Content.text>>
              /\ after[first].StepType = steps[first].StepType
              /\ \A j \in DOMAIN steps : j # first => after[j] = steps[j]
              /\ [state'.CurrentPlan[1] EXCEPT !.Steps = steps] = state.CurrentPlan[1]
        ]_vars

\* C11 witness: the coder's router was given two steps without a result and
\* filled the first of them only.
C11_Witness ==
    /\ sched = "returned"
    /\ node = Coder
    /\ outcome = "ok"
    /\ state.Goto = ResearchTeam
    /\ Len(state.CurrentPlan[1].Steps) = 2
    /\ state.CurrentPlan[1].Steps[1].ExecutionRes = <<"out">>
    /\ state.CurrentPlan[1].Steps[2].ExecutionRes = <<>>

\* C12: in a run started at the coordinator, whenever the reporter is about
\* to run, the plan is present and every step of it has a result, and the
\* reporter's load stage never faults.
C12_ReporterEntered ==
    /\ sched = Reporter =>
           /\ state.CurrentPlan # <<>>
           /\ OpenSteps(state.CurrentPlan[1].Steps) = {}
    /\ ~(node = Reporter /\ outcome = "panic")

\* C13: in a run started at the coordinator, whenever the researcher or the
\* coder is about to run, the plan is present and has a step without a
\* result, and their load stage never faults.
C13_AgentEntered ==
    /\ sched \in {Researcher, Coder} =>
           /\ state.CurrentPlan # <<>>
           /\ OpenSteps(state.CurrentPlan[1].Steps) # {}
    /\ ~(node \in {Researcher, Coder} /\ outcome = "panic")

\* C13 witness: the research team has dispatched to the coder for the
\* second step of a plan whose first step was executed earlier in the run.
C13_Witness ==
    /\ sched = Coder
    /\ node = ResearchTeam
    /\ outcome = "ok"
    /\ Len(state.CurrentPlan[1].Steps) = 2
    /\ state.CurrentPlan[1].Steps[1].ExecutionRes = <<"out">>
    /\ state.CurrentPlan[1].Steps[2].ExecutionRes = <<>>

\* C14: the background investigator's router leaves Goto = planner and the
\* reporter's router leaves Goto = END, without an error, whatever State
\* and input they are given.
C14_FixedRouting ==
    [][ /\ node' = BackgroundInvestigator =>
               outcome' = "ok" /\ state'.Goto = Planner
        /\ node' = Reporter =>
               outcome' = "ok" /\ state'.Goto = END ]_vars

\* C14 witness: the reporter's router has returned with Goto = END on a
\* State that holds a plan with a step still open.
C14_Witness ==
    /\ sched = "returned"
    /\ node = Reporter
    /\ outcome = "ok"
    /\ state.CurrentPlan # <<>>
    /\ OpenSteps(state.CurrentPlan[1].Steps) # {}
    /\ state.Goto = END

\* C15: when the search tool's invocation returns an error, the background
\* investigator does not fail the run: the results stay empty and the run
\* goes on through the node's router to the planner.
C15_SearchErrorSwallowed ==
    [][ node' = BackgroundInvestigator /\ mcp'.run = "error" =>
          /\ outcome' = "ok"
          /\ state'.BackgroundInvestigationResults = ""
          /\ state'.Goto = Planner
          /\ sched' = Planner ]_vars

\* a hand_to_planner call whose arguments do not decode into a map of
\* strings: not JSON, or a locale that is not a string
MalformedHandoff(call) ==
    /\ call.Name = HandToPlanner
    /\ \/ call.Arguments.kind = "invalid"
       \/ call.Arguments.locale = "number"

WellFormedHandoff(call) ==
    /\ call.Name = HandToPlanner
    /\ call.Arguments.kind = "object"
    /\ call.Arguments.locale # "number"

C18_Truncation ==
    [][ sched' = "guarded" =>
          /\ Len(inputList') = Len(inputList)
          /\ \A i \in DOMAIN inputList :
                 IF inputList[i] = <<>>
                 THEN inputList'[i] = <<>>
                 ELSE LET c == inputList[i][1]
                          d == inputList'[i][1]
                      IN  /\ Len(inputList'[i]) = 1
                          /\ IF Len(c) > maxLimit
                             THEN /\ Len(d) = maxLimit
                                  /\ \A j \in 1..maxLimit :
                                         d[j] = c[Len(c) - maxLimit + j]
                             ELSE d = c ]_vars

\* C18 witness: under limit 2 the guard has returned a list whose first
\* entry is nil and whose second holds two units, "ab".
C18_Witness ==
    /\ sched = "guarded"
    /\ maxLimit = 2
    /\ inputList = << <<>>, << <<"a", "b">> >> >>

\* C20: throughout a run PlanIterations equals the number of planner router
\* invocations so far whose content parsed as a plan: it starts at 0, never
\* decreases, and changes only on a step of the planner's router that
\* parsed its content.
C20_IterationsCount ==
    /\ [](/\ state.PlanIterations = parsed
          /\ node = "" => state.PlanIterations = 0)
    /\ [][ /\ state'.PlanIterations >= state.PlanIterations
           /\ state'.PlanIterations # state.PlanIterations =>
                  /\ sched = Planner
                  /\ node' = Planner
                  /\ input'.Content.kind = "plan"
                  /\ state'.PlanIterations = state.PlanIterations + 1 ]_vars

\* C20 witness: after two parsed plans, the planner's router has met
\* content it could not parse and left the count at 2.
C20_Witness ==
    /\ node = Planner
    /\ outcome = "ok"
    /\ input.Content.kind # "plan"
    /\ parsed = 2
    /\ state.PlanIterations = 2
    /\ state.Goto = Reporter

\* what a node's pipeline yields for a State and the external inputs of the
\* step (the model's response, the tool bridge's behaviour)
NodeResult(n, s, in, m) ==
    IF n = BackgroundInvestigator
    THEN LET f == search(s, m)
         IN  IF f.err = "nil" THEN investigator_router(f.state) ELSE f
    ELSE IF LoadFaults(n, s) THEN Ret(s, "panic")
    ELSE RouterOf(n, s, in)

ExecutedPrefix(steps) ==
    \A i, j \in DOMAIN steps :
        i < j /\ steps[j].ExecutionRes # <<>> => steps[i].ExecutionRes # <<>>

\* C21: in a run (whose plans come from the planner without results) the
\* steps of the current plan that hold a result always form a prefix of
\* the step list, and no step of any node other than the planner, nor a
\* resume, changes or clears a result that is set.
C21_ResultsLeftToRight ==
    /\ [](state.CurrentPlan # <<>> => ExecutedPrefix(state.CurrentPlan[1].Steps))
    /\ [][ (node' # Planner \/ sched # Planner) /\ state.CurrentPlan # <<>> =>
             /\ state'.CurrentPlan # <<>>
             /\ DOMAIN state'.CurrentPlan[1].Steps = DOMAIN state.CurrentPlan[1].Steps
             /\ \A i \in DOMAIN state.CurrentPlan[1].Steps :
                    state.CurrentPlan[1].Steps[i].ExecutionRes # <<>> =>
                        state'.CurrentPlan[1].Steps[i] = state.CurrentPlan[1].Steps[i]
          ]_vars

\* C21 witness: the researcher, dispatched for the research step that
\* follows a step of another type, has stored its result in the first step.
C21_Witness ==
    /\ node = Researcher
    /\ outcome = "ok"
    /\ Len(state.CurrentPlan[1].Steps) = 2
    /\ state.CurrentPlan[1].Steps[1].StepType = "analysis"
    /\ state.CurrentPlan[1].Steps[1].ExecutionRes = <<"out">>
    /\ state.CurrentPlan[1].Steps[2].StepType = Research
    /\ state.CurrentPlan[1].Steps[2].ExecutionRes = <<>>

\* C22: after every invocation of the planner's router, whether or not the
\* content parsed, the current plan is present and holds only what this
\* invocation decoded from the content (nothing at all when the content is
\* not JSON): no step and no result of the plan that was current before.
C22_PlanReplaced ==
    [][ node' = Planner =>
          /\ state'.CurrentPlan # <<>>
          /\ Len(state'.CurrentPlan) = 1
          /\ input'.Content.kind = "invalid" => state'.CurrentPlan[1] = EmptyPlan
          /\ input'.Content.kind # "invalid" =>
                 state'.CurrentPlan[1] = input'.Content.plan ]_vars

\* C22 witness: the planner's router met content that is not JSON while a
\* plan with an executed step was current, and left an empty plan.
C22_Witness ==
    /\ sched = "returned"
    /\ node = Planner
    /\ input.Content.kind = "invalid"
    /\ state.Locale = "en-US"
    /\ state.BackgroundInvestigationResults = "found"
    /\ state.CurrentPlan = <<EmptyPlan>>

\* C23: once a loop that reads a stream has been left (the tool-call
\* checker returning true early, on end-of-stream or on a receive error;
\* the output callback on end-of-stream, on a receive error or when
\* handling a frame panics), the stream is closed.
C23_StreamClosed ==
    loop.pc = "done" => sr.closed

\* C23 witness: the output callback's loop was left by a panic in the
\* handling of its second frame, and the stream is closed.
C23_Witness ==
    /\ loop.who = "callback"
    /\ loop.pc = "done"
    /\ loop.err = "panic"
    /\ sr.pos = 2
    /\ sr.closed

\* the positions of the frames that carry a tool call
WithCalls(frames) == {i \in DOMAIN frames : frames[i].calls > 0}

\* C29: the tool-call checker returns true exactly when a message of the
\* stream carries a tool call, having read up to the first such message
\* and no further; otherwise it has read the whole stream and returns
\* false, with no error at end-of-stream and with the receive error when
\* receiving failed.
C29_ToolCallChecker ==
    loop.who = "checker" /\ loop.pc = "done" =>
        IF WithCalls(sr.frames) # {}
        THEN /\ loop.found
             /\ loop.err = "nil"
             /\ sr.pos \in WithCalls(sr.frames)
             /\ \A i \in WithCalls(sr.frames) : sr.pos <= i
        ELSE /\ ~loop.found
             /\ sr.pos = Len(sr.frames)
             /\ loop.err = IF sr.end = "EOF" THEN "nil" ELSE "error"

\* C29 witness: the checker returned true on the second message of a
\* stream whose first message carries no tool call.
C29_Witness ==
    /\ loop.who = "checker"
    /\ loop.pc = "done"
    /\ loop.found
    /\ Len(sr.frames) = 2
    /\ sr.frames[1].calls = 0
    /\ sr.pos = 2


\* C24: a router invocation leaves Messages, MaxPlanIterations, MaxStepNum,
\* AutoAcceptedPlan and EnableBackgroundInvestigation as they were, whatever
\* the router and however it returns; Locale is left as it was by every
\* router other than the Coordinator's.
C24_RouterFrame ==
    [][ (node' \in GetAgentNameList) =>
          /\ state'.Messages = state.Messages
          /\ state'.MaxPlanIterations = state.MaxPlanIterations
          /\ state'.MaxStepNum = state.MaxStepNum
          /\ state'.AutoAcceptedPlan = state.AutoAcceptedPlan
          /\ state'.EnableBackgroundInvestigation = state.EnableBackgroundInvestigation
          /\ node' # Coordinator => state'.Locale = state.Locale ]_vars

\* C24 witness: the Human router has returned on an accepted plan, with
\* AutoAcceptedPlan still off and the Locale and the investigation switch
\* it was given still in place.
C24_Witness ==
    /\ node = Human
    /\ outcome = "ok"
    /\ ~state.AutoAcceptedPlan
    /\ state.Goto = ResearchTeam
    /\ state.Locale = "en-US"
    /\ state.EnableBackgroundInvestigation


\* C25 as stated: CurrentPlan is absent in every state of a run in which no
\* Planner invocation has yet parsed a plan, a state after a failed parse
\* with PlanIterations = 0 included.
C25_Original ==
    parsed = 0 => state.CurrentPlan = <<>>

\* C25: CurrentPlan is absent in every state of a run in which the Planner
\* router has not yet been invoked, and present in every state from its
\* first invocation on, whether or not that invocation parsed a plan.
C25_PlanAbsentBeforePlanner ==
    /\ parsed = 0 /\ node # Planner => state.CurrentPlan = <<>>
    /\ parsed > 0 \/ node = Planner => state.CurrentPlan # <<>>

\* C25 witness: the first Planner invocation has failed to parse its
\* content with PlanIterations = 0: the run is over, and CurrentPlan is the
\* fresh Plan.
C25_Witness ==
    /\ node = Planner
    /\ parsed = 0
    /\ input.Content.kind = "invalid"
    /\ state.PlanIterations = 0
    /\ state.Goto = END
    /\ state.CurrentPlan = <<EmptyPlan>>


\* C26: whenever the research team's router leaves Goto = reporter, every
\* step of CurrentPlan has a result.
C26_TeamReporterOnlyWhenDone ==
    [][ node' = ResearchTeam /\ state'.Goto = Reporter =>
          /\ state'.CurrentPlan # <<>>
          /\ OpenSteps(state'.CurrentPlan[1].Steps) = {} ]_vars


\* C27: when the first tool call of the response is a hand_to_planner call
\* whose arguments cannot be parsed, the coordinator's router still hands
\* off: Goto = background_investigator if EnableBackgroundInvestigation,
\* else planner, as for well-formed arguments.
C27_MalformedArgsHandoff ==
    [][ /\ node' = Coordinator
        /\ input'.ToolCalls # <<>>
        /\ MalformedHandoff(input'.ToolCalls[1])
        => state'.Goto = HandoffGoto(state) ]_vars

C30_IterationsBounded ==
    state.AutoAcceptedPlan /\ state.MaxPlanIterations >= 1 =>
        state.PlanIterations <= state.MaxPlanIterations

\* C30 witness: in such a run with a budget of two the planner, entered a
\* second time (from the research team, with PlanIterations = 1), has
\* parsed its second plan and PlanIterations has reached the budget.
C30_Witness ==
    /\ node = Planner
    /\ state.AutoAcceptedPlan
    /\ state.MaxPlanIterations = 2
    /\ parsed = 2
    /\ state.PlanIterations = 2


\* C31: a run with AutoAcceptedPlan on, in which every scheduled node runs
\* and completes, eventually reaches END or stops on a fault; and it is not
\* the bound on the planner's answers that stops it: the planner is never
\* entered with PlanIterations at that bound.
C31_AutoRunTerminates ==
    /\ [](state.AutoAcceptedPlan /\ sched = Planner => state.PlanIterations < MaxIterations)
    /\ (state.AutoAcceptedPlan => <>(sched \in {END, "aborted"}))

\* C31 witness: an auto-accepted run has ended at the reporter after the
\* cycle through the planner was taken twice.
C31_Witness ==
    /\ state.AutoAcceptedPlan
    /\ parsed = 2
    /\ node = Reporter
    /\ sched = END


\* C32: the coordinator is the node a run starts with, and once a node has
\* run the coordinator is never scheduled again and Goto never names it;
\* once the reporter has run, the run is over (END, or stopped on a fault),
\* so the reporter runs at most once; and a run that has reached END has
\* just run the coordinator (which did not hand off), the planner (whose
\* parse failed with PlanIterations = 0) or the reporter.
C32_RunShape ==
    /\ node = "" => sched = Coordinator
    /\ node # "" => sched # Coordinator /\ state.Goto # Coordinator
    /\ node = Reporter => sched \in {END, "aborted"}
    /\ sched = END =>
          \/ node = Coordinator /\ state.Goto = END
          \/ /\ node = Planner
             /\ UnmarshalPlan(input.Content).err
             /\ state.PlanIterations = 0
          \/ node = Reporter

\* C32 witness: a run has ended right after the planner, whose content did
\* not fit a Plan, with PlanIterations = 0.
C32_Witness ==
    /\ sched = END
    /\ node = Planner
    /\ input.Content.kind = "mismatch"
    /\ state.PlanIterations = 0


\* C33: in a run, on a plan whose steps are all of type research or
\* processing, a step changed by the researcher's router is of type
\* research and a step changed by the coder's is of type processing; it is
\* the first step without a result, the one the research team dispatched
\* on, and it receives a result.
C33_ResultGoesToDispatchedStep ==
    [][ /\ node' \in {Researcher, Coder}
        /\ outcome' = "ok"
        /\ KnownTypes(state.CurrentPlan[1].Steps)
        => /\ state'.CurrentPlan # <<>>
           /\ DOMAIN state'.CurrentPlan[1].Steps = DOMAIN state.CurrentPlan[1].Steps
           /\ \E i \in DOMAIN state.CurrentPlan[1].Steps :
                  state'.CurrentPlan[1].Steps[i] # state.CurrentPlan[1].Steps[i]
           /\ \A i \in DOMAIN state.CurrentPlan[1].Steps :
                  state'.CurrentPlan[1].Steps[i] # state.CurrentPlan[1].Steps[i] =>
                      /\ i = firstUnexecuted(state.CurrentPlan[1].Steps, 1)
                      /\ state'.CurrentPlan[1].Steps[i].ExecutionRes # <<>>
                      /\ state.CurrentPlan[1].Steps[i].StepType =
                             IF node' = Researcher THEN Research ELSE Processing
      ]_vars

\* C33 witness: the coder's router has stored its answer in the second
\* step, of type processing, of a plan whose first step is of type research
\* and already had its result.
C33_Witness ==
    /\ node = Coder
    /\ outcome = "ok"
    /\ state.CurrentPlan # <<>>
    /\ Len(state.CurrentPlan[1].Steps) = 2
    /\ state.CurrentPlan[1].Steps[1].StepType = Research
    /\ state.CurrentPlan[1].Steps[2].StepType = Processing
    /\ state.CurrentPlan[1].Steps[1].ExecutionRes # <<>>
    /\ state.CurrentPlan[1].Steps[2].ExecutionRes # <<>>


\* C34: in a run started as BuildAgentGraph starts it (AutoAcceptedPlan on,
\* EnableBackgroundInvestigation off), the background investigator is never
\* scheduled nor run, the run is never suspended, and whenever the human
\* feedback node has run it returned without error and the research team
\* is next.
C34_BuiltGraphRun ==
    state.AutoAcceptedPlan /\ ~state.EnableBackgroundInvestigation =>
        /\ sched # BackgroundInvestigator
        /\ node # BackgroundInvestigator
        /\ sched # "suspended"
        /\ node = Human =>
               /\ outcome = "ok"
               /\ state.Goto = ResearchTeam
               /\ sched = ResearchTeam

\* C34 witness: in such a run the human feedback node has run on the
\* second plan of the run and handed it to the research team.
C34_Witness ==
    /\ state.AutoAcceptedPlan
    /\ ~state.EnableBackgroundInvestigation
    /\ node = Human
    /\ parsed = 2
    /\ sched = ResearchTeam


\* C35: on every State and every input, the router of the planner, the
\* human feedback node, the research team, the researcher, the coder and
\* the reporter under agent/ leaves the State, and returns the Goto and the
\* error, that its older counterpart under biz/eino does.
C35_RoutersEquivalent ==
    [][ (node' \in {Planner, Human, ResearchTeam, Researcher, Coder, Reporter}) =>
          LET r == EinoRouterOf(node', state, input')
          IN  /\ state' = r.state
              /\ outcome' = OutcomeOf(r.err) ]_vars

\* C35 witness: the human router has signalled interrupt-and-rerun on a
\* feedback that is neither accepted nor edit_plan, and left Goto =
\* research_team and the feedback cleared.
C35_Witness ==
    /\ node = Human
    /\ sched = "returned"
    /\ outcome = "interrupt"
    /\ state.Goto = ResearchTeam
    /\ state.InterruptFeedback = ""


\* C36: when no available tool has a name ending in "search", the
\* background investigator does not fault: the results stay empty and the
\* run goes on to the planner.
C36_NoSearchToolTolerated ==
    [][ node' = BackgroundInvestigator /\ mcp'.tools = "nosearch" =>
          /\ outcome' = "ok"
          /\ state'.BackgroundInvestigationResults = ""
          /\ state'.Goto = Planner
          /\ sched' = Planner ]_vars


\* C37: with the calls made one at a time, a Get returns the bytes of the
\* most recent Set under its id, through whichever handles the two calls
\* were made, and found = false when there was none; a Set changes nothing
\* under another id; and a Get leaves the store as it was.
C37_StoreSemantics ==
    /\ [](callers.ret.op = "get" =>
            /\ callers.ret.ok = (callers.last[callers.ret.id] # <<>>)
            /\ callers.ret.data = callers.last[callers.ret.id])
    /\ [][ callers'.ret.op = "set" =>
             \A a \in DOMAIN checkpointImpl : \A i \in Ids \ {callers'.ret.id} :
                 checkpointImpl'[a][i] = checkpointImpl[a][i] ]_vars
    /\ [][ callers'.ret.op = "get" => checkpointImpl' = checkpointImpl ]_vars

\* C37 witness: a Get through the second handle has returned the bytes set
\* last under its id, which were set through the first handle over other
\* bytes, while the other id holds bytes of its own.
C37_Witness ==
    /\ sched = "store"
    /\ callers.ret = [op |-> "get", h |-> 2, id |-> "id1", data |-> <<"y">>, ok |-> TRUE]
    /\ checkpointImpl[0]["id2"] = <<"x">>

\* C38: no two runs are inside a call on the store at the same time unless
\* both calls are Gets.
C38_MutualExclusion ==
    \A r, q \in Runs :
        r # q /\ callers.acc[r].op # "idle" /\ callers.acc[q].op # "idle" =>
            callers.acc[r].op = "get" /\ callers.acc[q].op = "get"

====
